---- MODULE Spec2Model ----
(***************************************************************************)
(* Price-oracle aggregation service: OracleManager (polling, consensus,    *)
(* history-store insert, coherence cache), ManipulationDetector (rolling   *)
(* per-symbol history and score) and PriceAggregator (validation,          *)
(* conservative pricing, broadcast), with the concurrent callers of        *)
(* get_price_with_validation.                                              *)
(*                                                                         *)
(* Numbers.  f64 money values (prices, confidences) are fixed-point        *)
(* integers in units of 1/PriceUnit; scores are integers in units of       *)
(* 1/ScoreUnit; the reconciler's weights are in units of 1/WeightUnit and  *)
(* its weighted sum in units of 1/(PriceUnit * SumUnit).  Every operation  *)
(* that rounds in f64 rounds down to the resolution of its result.         *)
(* Comparisons against thresholds are made on exact integer                *)
(* cross-products.                                                         *)
(* Time.  `now` is the wall/monotonic clock in milliseconds; UNIX          *)
(* timestamps are whole seconds (now \div 1000), as `as_secs()` gives.     *)
(***************************************************************************)
EXTENDS Integers, Sequences, FiniteSets, TLC

VARIABLES
    now,            \* clock, ms
    price_cache,    \* OracleManager.price_cache : symbol -> (AggregatedPrice, Instant)
    price_history,  \* ManipulationDetector.price_history : symbol -> Vec<(f64, i64)>
    price_feeds,    \* rows of the history-store table price_feeds, in insertion order
    channel,        \* events handed to price_broadcaster.send, in send order
    pc,             \* per caller: position inside get_price_with_validation
    sym,            \* per caller: the `symbol` argument
    aggregated,     \* per caller: value returned by get_aggregated_price
    score,          \* per caller: manipulation_score
    result,         \* per caller: what the last finished call returned
    trace,          \* per caller: what the current (or last finished) call did
    cache_gen,      \* symbol -> number of cache inserts so far
    calls,          \* number of calls started
    advances,       \* number of clock advances
    monitor,        \* start_continuous_monitoring: position in the loop
    subscribers,    \* per subscriber: its broadcast::Receiver and forwarding task
    probe,          \* a direct call of a pure function: its input and its output
    switchboard     \* SwitchboardClient: rate_limiter, last_request_time, its callers

vars == <<now, price_cache, price_history, price_feeds, channel, pc, sym,
          aggregated, score, result, trace, cache_gen, calls, advances,
          monitor, subscribers, probe, switchboard>>

\* the variables outside get_price_with_validation
others == <<monitor, subscribers, probe, switchboard>>

-----------------------------------------------------------------------------
(* Bounds of the model *)

MaxCalls == 2
MaxAdvances == 1
MaxSteadyCalls == 3
MaxSteadyAdvances == 1
WarmPoints == 11
MaxProbeQuotes == 2
MaxProbeHistory == 21
MaxProbeAnalyses == 2
MaxMonitorAnswers == 2
MaxBroadcastCalls == 5
ChannelCapacity == 2    \* broadcast::channel(1000), scaled to MaxBroadcastCalls
MaxHistorySize == 21    \* max_history_size: 1000, scaled to MaxProbeHistory
MaxReportCalls == 3
MaxReportAdvances == 2
MaxReports == 2
MaxLockCalls == 3
MaxLiveCalls == 3
MaxBatchLen == 2
MaxAdapterCalls == 2
MaxAdapterAdvances == 1
MaxLimiterCalls == 3
MaxLimiterAdvances == 2

(* Program constants *)

PriceUnit == 10
ScoreUnit == 10000
WeightUnit == 1000
SumUnit == 10
CacheDurationMs == 500
StalenessMaxS == 30
VolatilityWindowS == 300
MinHistoryPoints == 10
MinPatternPoints == 20
PatternWindow == 10
VelocityPoints == 5
ManipulationThreshold == 7000
HistoricalWindowS == 3600
MaxReasonablePrice == 1000000 * PriceUnit
PollIntervalMs == 250
RateLimitPermits == 2
MinRequestGapMs == 500
RequestTimeoutMs == 10000
VarianceUnit == 10000

MonitoredSymbols == <<"BTC/USD", "ETH/USD">>
Symbols == {MonitoredSymbols[i] : i \in 1..Len(MonitoredSymbols)}
Requested == {"BTC/USD"}
SymbolDelayMs == 10
Callers == {"monitor", "handler"}
Subscribers == {"ws1", "ws2"}
Tasks == {"t1", "t2", "t3"}
ClientNames == <<"Pyth", "Switchboard">>
NumClients == Len(ClientNames)

NoPrice == [symbol |-> "none"]
NoResult == [kind |-> "none"]
NoEntry == [present |-> FALSE]
NotMonitoring == [phase |-> "off", index |-> 0]
NoReceiver == [open |-> FALSE, start |-> 0, next |-> 0, received |-> << >>, lost |-> 0]
NoProbe == [op |-> "none"]
IdleTask == [pc |-> "idle", wake_at |-> 0, sent_at |-> 0, upstream |-> "none",
             result |-> [ok |-> FALSE, err |-> "none"]]
NewSwitchboard == [permits |-> RateLimitPermits, last_request_time |-> 0,
                   task |-> [t \in Tasks |-> IdleTask],
                   requests |-> << >>]   \* the instants at which requests were sent
NoTrace == [calm |-> FALSE, hit |-> FALSE, gen |-> 0, polled |-> FALSE, polled_at |-> 0,
            fetched |-> << >>,
            rows |-> 0, sent |-> << >>, cached |-> 0, analyzed |-> 0,
            validated |-> FALSE, havg |-> -1,
            row_at |-> 0,       \* position of the call's row in price_feeds
            sent_at |-> 0,      \* position of the call's event in channel
            returned_at |-> 0,  \* clock when the call returned
            receivers |-> -1]   \* live receivers when the call sent its event

-----------------------------------------------------------------------------
(* Arithmetic helpers *)

Abs(x) == IF x < 0 THEN -x ELSE x
Min(a, b) == IF a < b THEN a ELSE b

RECURSIVE SumSeq(_)
SumSeq(s) == IF s = << >> THEN 0 ELSE Head(s) + SumSeq(Tail(s))

RECURSIVE MaxSeq(_)
MaxSeq(s) == IF Len(s) = 1 THEN s[1]
             ELSE LET m == MaxSeq(Tail(s)) IN IF s[1] > m THEN s[1] ELSE m

RECURSIVE SqrtSearch(_, _, _)
SqrtSearch(n, lo, hi) ==
    IF lo >= hi THEN lo
    ELSE LET mid == (lo + hi + 1) \div 2
         IN IF mid * mid <= n THEN SqrtSearch(n, mid, hi)
            ELSE SqrtSearch(n, lo, mid - 1)

\* floor of the square root
Sqrt(n) == SqrtSearch(n, 0, Min(n, 46340))

-----------------------------------------------------------------------------
(* Adapter results.  An adapter call yields a quote (PriceData) or fails;  *)
(* a failure is the value Failed.  A quote's timestamp is the upstream     *)
(* publish time: `age` seconds before the second in which it is used.      *)

Failed == [ok |-> FALSE]

Quote(s, p, c, age, t, src) ==
    [ok |-> TRUE, symbol |-> s, price |-> p, confidence |-> c,
     timestamp |-> t - age, source |-> src]

\* an answer an adapter may give: no quote, or (price, confidence, age)
NoAnswer == [fail |-> TRUE, price |-> 0, confidence |-> 0, age |-> 0]
Q(p, c, age) == [fail |-> FALSE, price |-> p, confidence |-> c, age |-> age]

PythMenu ==
    { NoAnswer,
      Q(1000, 0, 0),       \* P
      Q(1000, 0, 30),      \* P, published 30 s ago
      Q(1000, 0, 31) }     \* P, published 31 s ago

SwitchboardMenu ==
    { NoAnswer,
      Q(1100, 10, 0),      \* 1.10 * P, confidence 1.0
      Q(1300, 20, 0),      \* 1.30 * P, confidence 2.0
      Q(1000, 60, 0) }     \* P with a 6% confidence band

QuoteMenu == <<PythMenu, SwitchboardMenu>>

\* every adapter is down
DownMenu == <<{NoAnswer}, {NoAnswer}>>

\* a steady market, then one that may jump by 30%; one adapter is down
CalmMenu == <<{Q(1000, 0, 0)}, {NoAnswer}>>
JumpMenu == <<{Q(1000, 0, 0), Q(1300, 20, 0)}, {NoAnswer, Q(1300, 0, 0)}>>

\* what adapter i may return at second t
ClientOutcomes(menu, i, s, t) ==
    { IF m.fail THEN Failed
      ELSE Quote(s, m.price, m.confidence, m.age, t, ClientNames[i]) : m \in menu[i] }

\* every vector of results of the configured adapters
PollOutcomes(menu, s, t) ==
    { <<a, b>> : a \in ClientOutcomes(menu, 1, s, t),
                 b \in ClientOutcomes(menu, 2, s, t) }

\* variant: collection stops at the first adapter error
CollectPrices_UntilFailure(results) ==
    IF \E i \in 1..Len(results) : ~results[i].ok
    THEN SubSeq(results, 1, (CHOOSE i \in 1..Len(results) :
                                /\ ~results[i].ok
                                /\ \A j \in 1..(i - 1) : results[j].ok) - 1)
    ELSE results

\* get_aggregated_price: the results that are Some(price), in client order
CollectPrices(results) == SelectSeq(results, LAMBDA r : r.ok)

-----------------------------------------------------------------------------
(* OracleManager::calculate_aggregated_price *)

\* variant: quotes up to a minute old are kept
IsFresh_OneMinute(p, current_time) == current_time - p.timestamp <= 60

IsFresh(p, current_time) == current_time - p.timestamp <= StalenessMaxS

\* variant: no quote is filtered out
ValidPrices_KeepsAll(prices, current_time) == prices

ValidPrices(prices, current_time) ==
    SelectSeq(prices, LAMBDA p : IsFresh(p, current_time))

\* weight = 1.0 / (1.0 + confidence), rounded to 1/WeightUnit; confidence is
\* in 1/PriceUnit units
Weight(p) == (WeightUnit * PriceUnit) \div (PriceUnit + p.confidence)

\* price * weight, rounded to 1/(PriceUnit * SumUnit)
WeightedTerm(p) == (p.price * Weight(p) * SumUnit) \div WeightUnit

WeightedSum(ps) == SumSeq([i \in 1..Len(ps) |-> WeightedTerm(ps[i])])
TotalWeight(ps) == SumSeq([i \in 1..Len(ps) |-> Weight(ps[i])])
ConfidenceSum(ps) == SumSeq([i \in 1..Len(ps) |-> ps[i].confidence])

\* weighted_sum / total_weight, rounded to 1/PriceUnit
MarkPrice(ps) == (WeightedSum(ps) * WeightUnit) \div (TotalWeight(ps) * SumUnit)

\* Err(kind) or Ok(AggregatedPrice)
Err(kind) == [ok |-> FALSE, err |-> kind]
Ok(v) == [ok |-> TRUE, value |-> v]

calculate_aggregated_price(symbol, prices, current_time) ==
    IF prices = << >> THEN Err("NoPriceData")
    ELSE LET valid_prices == ValidPrices(prices, current_time)
         IN IF valid_prices = << >> THEN Err("AllStale")
            ELSE Ok([symbol |-> symbol,
                     mark_price |-> MarkPrice(valid_prices),
                     index_price |-> MarkPrice(valid_prices),
                     confidence |-> ConfidenceSum(valid_prices) \div Len(valid_prices),
                     sources |-> valid_prices,
                     timestamp |-> current_time])

\* variant: the empty check after join_all is missing
AggregateOutcome_Unchecked(symbol, results, current_time) ==
    calculate_aggregated_price(symbol, CollectPrices(results), current_time)

\* get_aggregated_price after join_all: the empty check, then the
\* reconciliation
AggregateOutcome(symbol, results, current_time) ==
    IF CollectPrices(results) = << >> THEN Err("NoSources")
    ELSE calculate_aggregated_price(symbol, CollectPrices(results), current_time)

-----------------------------------------------------------------------------
(* PriceAggregator::validate_price_sources / validate_price_freshness *)

SourcePrices(price) == [i \in 1..Len(price.sources) |-> price.sources[i].price]

\* variant: deviation measured from the first source, not from the mean
DeviatesFromMean_FromFirst(p, prices) ==
    Abs(p - prices[1]) * 100 > 5 * prices[1]

\* variant: a 15% threshold
DeviatesFromMean_Loose(p, prices) ==
    Abs(Len(prices) * p - SumSeq(prices)) * 100 > 15 * SumSeq(prices)

\* deviation > health_threshold, deviation = |p - mean| / mean with
\* mean = sum / n:  |n*p - sum| / sum > 5/100
DeviatesFromMean(p, prices) ==
    Abs(Len(prices) * p - SumSeq(prices)) * 100 > 5 * SumSeq(prices)

\* variant: a 10% band is tolerated
ConfidenceTooHigh_TenPercent(source_price) ==
    source_price.confidence * 100 > 10 * source_price.price

\* confidence_percentage > 0.05 with
\* confidence_percentage = confidence / price, for price > 0
ConfidenceTooHigh(source_price) ==
    source_price.confidence * 100 > 5 * source_price.price

validate_price_sources(price) ==
    IF price.sources = << >> THEN Err("NoSourcesToValidate")
    ELSE IF Len(price.sources) = 1 THEN
        LET source_price == price.sources[1]
        IN IF source_price.price <= 0 \/ source_price.price > MaxReasonablePrice
           THEN Err("UnreasonablePrice")
           ELSE IF ConfidenceTooHigh(source_price)
           THEN Err("LowSingleSourceConfidence")
           ELSE Ok(TRUE)
    ELSE LET prices == SourcePrices(price)
         IN IF \E i \in 1..Len(prices) : DeviatesFromMean(prices[i], prices)
            THEN Err("DeviationTooHigh")
            ELSE Ok(TRUE)

validate_price_freshness(price, current_time) ==
    IF current_time - price.timestamp > StalenessMaxS THEN Err("Stale")
    ELSE Ok(TRUE)

\* validate_price_sources(..)?; validate_price_freshness(..)?;
Validate(price, current_time) ==
    IF ~validate_price_sources(price).ok THEN validate_price_sources(price)
    ELSE validate_price_freshness(price, current_time)

-----------------------------------------------------------------------------
(* ManipulationDetector *)

HistoryPrices(prices) == [i \in 1..Len(prices) |-> prices[i][1]]

\* the last up to 5 prices, newest first
RecentPrices(prices) ==
    LET n == Min(VelocityPoints, Len(prices))
    IN [i \in 1..n |-> prices[Len(prices) + 1 - i][1]]

\* variant: the velocity sub-score is not capped at 1.0
calculate_velocity_score_Uncapped(prices) ==
    IF Len(prices) < VelocityPoints THEN 0
    ELSE LET recent == RecentPrices(prices)
             velocity == SumSeq([i \in 1..(Len(recent) - 1) |->
                            (Abs(recent[i] - recent[i + 1]) * ScoreUnit) \div recent[i + 1]])
         IN (velocity * 100) \div (Len(recent) - 1)

calculate_velocity_score(prices) ==
    IF Len(prices) < VelocityPoints THEN 0
    ELSE LET recent == RecentPrices(prices)
             velocity == SumSeq([i \in 1..(Len(recent) - 1) |->
                            (Abs(recent[i] - recent[i + 1]) * ScoreUnit) \div recent[i + 1]])
         IN Min((velocity * 100) \div (Len(recent) - 1), ScoreUnit)

\* n * std_dev, from the exact integers n*p - sum:
\* (n*std_dev)^2 = sum((n*p - sum)^2) / n
ScaledStdDev(values) ==
    LET n == Len(values)
        total == SumSeq(values)
    IN Sqrt(SumSeq([i \in 1..n |-> (n * values[i] - total) * (n * values[i] - total)]) \div n)

calculate_volatility_score(prices) ==
    IF Len(prices) < MinHistoryPoints THEN 0
    ELSE LET values == HistoryPrices(prices)
         IN Min((10 * ScoreUnit * ScaledStdDev(values)) \div SumSeq(values), ScoreUnit)

PumpDumpWindow(window) ==
    LET start == window[1]
        peak == MaxSeq(window)
        end == window[Len(window)]
    IN peak * 10 > 11 * start /\ peak * 100 > 108 * end

detect_pump_dump_pattern(prices) ==
    IF Len(prices) < MinPatternPoints THEN 0
    ELSE LET values == HistoryPrices(prices)
             hits == Cardinality({k \in 1..(Len(values) - PatternWindow + 1) :
                        PumpDumpWindow(SubSeq(values, k, k + PatternWindow - 1))})
         IN Min(hits * (ScoreUnit \div 10), ScoreUnit)

\* z = |current - mean| / std_dev; with std_dev = 0 the quotient is NaN or
\* infinite and f64::min(.., 1.0) gives 1.0
calculate_outlier_score(prices, current_price) ==
    IF Len(prices) < MinHistoryPoints THEN 0
    ELSE LET values == HistoryPrices(prices)
             n == Len(values)
             sd == ScaledStdDev(values)
         IN IF sd = 0 THEN ScoreUnit
            ELSE Min((ScoreUnit * Abs(n * current_price - SumSeq(values))) \div (3 * sd),
                     ScoreUnit)

\* variant: short histories are scored too
calculate_manipulation_score_NoMinimum(prices, current_price) ==
    (30 * calculate_velocity_score(prices)
     + 25 * calculate_volatility_score(prices)
     + 25 * detect_pump_dump_pattern(prices)
     + 20 * calculate_outlier_score(prices, current_price)) \div 100

calculate_manipulation_score(prices, current_price) ==
    IF Len(prices) < MinHistoryPoints THEN 0
    ELSE (30 * calculate_velocity_score(prices)
          + 25 * calculate_volatility_score(prices)
          + 25 * detect_pump_dump_pattern(prices)
          + 20 * calculate_outlier_score(prices, current_price)) \div 100

\* variant: on overflow the newest entries are dropped
PushAndTrim_KeepsOldest(prices, price, timestamp) ==
    LET pushed == Append(prices, <<price, timestamp>>)
        cutoff_time == timestamp - VolatilityWindowS
        retained == SelectSeq(pushed, LAMBDA e : e[2] >= cutoff_time)
    IN IF Len(retained) > MaxHistorySize
       THEN SubSeq(retained, 1, MaxHistorySize)
       ELSE retained

\* the history of one symbol after analyze_price(symbol, price, timestamp)
PushAndTrim(prices, price, timestamp) ==
    LET pushed == Append(prices, <<price, timestamp>>)
        cutoff_time == timestamp - VolatilityWindowS
        retained == SelectSeq(pushed, LAMBDA e : e[2] >= cutoff_time)
    IN IF Len(retained) > MaxHistorySize
       THEN SubSeq(retained, Len(retained) - MaxHistorySize + 1, Len(retained))
       ELSE retained

-----------------------------------------------------------------------------
(* Conservative pricing *)

\* rows of the symbol inside the historical window
HistoricalRows(symbol, current_time) ==
    SelectSeq(price_feeds, LAMBDA r : r.symbol = symbol
                                      /\ r.created_at >= current_time - HistoricalWindowS)

\* SELECT AVG(price): -1 stands for NULL (no row)
HistoricalAverage(symbol, current_time) ==
    LET rows == HistoricalRows(symbol, current_time)
    IN IF rows = << >> THEN -1
       ELSE SumSeq([i \in 1..Len(rows) |-> rows[i].mark_price]) \div Len(rows)

\* variant: the weights of the price and of the historical mean exchanged
Blend_Swapped(value, historical_avg) == (2 * value + 8 * historical_avg) \div 10

\* adjustment_factor = 0.2
Blend(value, historical_avg) == (8 * value + 2 * historical_avg) \div 10

ConservativePrice(price, historical_avg) ==
    [symbol |-> price.symbol,
     mark_price |-> Blend(price.mark_price, historical_avg),
     index_price |-> Blend(price.index_price, historical_avg),
     confidence |-> (15 * price.confidence) \div 10,
     sources |-> price.sources,
     timestamp |-> price.timestamp]

\* the result of get_historical_average: the query may fail, AVG may be NULL
get_historical_average(db_ok, avg) ==
    IF ~db_ok THEN Err("HistoryUnavailable")
    ELSE IF avg = -1 THEN Err("NoHistoricalData")
    ELSE Ok(avg)

UpdateEvent(price, manipulation_score) ==
    [symbol |-> price.symbol,
     mark_price |-> price.mark_price,
     index_price |-> price.index_price,
     confidence |-> price.confidence,
     timestamp |-> price.timestamp,
     sources |-> [i \in 1..Len(price.sources) |-> price.sources[i].source],
     manipulation_score |-> manipulation_score]

\* broadcast::Sender::send: the number of live receivers, or an error when
\* there is none
broadcast_send(receivers) ==
    IF receivers = 0 THEN Err("NoReceivers") ELSE Ok(receivers)

\* variant: the error of send is returned to the caller
PublishOutcome_Propagates(sent, price) ==
    IF sent.ok THEN Ok(price) ELSE sent

\* if let Err(e) = send(..) { debug!(..) }  Ok(aggregated_price)
PublishOutcome(sent, price) == Ok(price)

\* variant: the event is sent before the validation result is looked at
SentOnValidation_BeforeValidation(validation, manipulation_score, event) ==
    IF manipulation_score <= ManipulationThreshold THEN <<event>> ELSE << >>

\* the events sent right after validation: the event of the validated
\* price, unless validation failed or the threshold branch is taken first
SentOnValidation(validation, manipulation_score, event) ==
    IF validation.ok /\ manipulation_score <= ManipulationThreshold
    THEN <<event>> ELSE << >>

-----------------------------------------------------------------------------
(* State *)

UnixTime == now \div 1000

\* live broadcast::Receiver handles
Receivers == Cardinality({k \in Subscribers : subscribers[k].open})

CacheHit(s) ==
    /\ price_cache[s].present
    /\ now - price_cache[s].cached_at < CacheDurationMs

InitEngine ==
    /\ now = 0
    /\ price_cache = [s \in Symbols |-> NoEntry]
    /\ price_history = [s \in Symbols |-> << >>]
    /\ price_feeds = << >>
    /\ channel = << >>
    /\ pc = [c \in Callers |-> "idle"]
    /\ sym = [c \in Callers |-> "none"]
    /\ aggregated = [c \in Callers |-> NoPrice]
    /\ score = [c \in Callers |-> 0]
    /\ result = [c \in Callers |-> NoResult]
    /\ trace = [c \in Callers |-> NoTrace]
    /\ cache_gen = [s \in Symbols |-> 0]
    /\ calls = 0
    /\ advances = 0

InitOthers ==
    /\ monitor = NotMonitoring
    /\ subscribers = [k \in Subscribers |-> NoReceiver]
    /\ probe = NoProbe
    /\ switchboard = NewSwitchboard

Init == InitEngine /\ InitOthers

\* the call of caller c returns r
Return(c, r) ==
    /\ pc' = [pc EXCEPT ![c] = "idle"]
    /\ result' = [result EXCEPT ![c] = r]

ReturnErr(c, kind) ==
    Return(c, [kind |-> "err", symbol |-> sym[c], err |-> kind])

ReturnOk(c, price) ==
    Return(c, [kind |-> "ok", symbol |-> sym[c], price |-> price])

\* the return after price_broadcaster.send
ReturnPublished(c, price) ==
    LET outcome == PublishOutcome(broadcast_send(Receivers), price)
    IN IF outcome.ok THEN ReturnOk(c, outcome.value) ELSE ReturnErr(c, outcome.err)

PriceFeedRow(price, created_at) ==
    [symbol |-> price.symbol,
     mark_price |-> price.mark_price,
     index_price |-> price.index_price,
     confidence |-> price.confidence,
     source_count |-> Len(price.sources),
     created_at |-> created_at]

-----------------------------------------------------------------------------
(* get_price_with_validation(symbol), one action per stretch of code       *)
(* between two suspension points                                           *)

\* entry, and get_aggregated_price's cache check; `calm` marks a call of
\* the warm-up, which is not counted
BeginCall(c, s, calm) ==
    /\ pc[c] = "idle"
    /\ calls' = IF calm THEN calls ELSE calls + 1
    /\ sym' = [sym EXCEPT ![c] = s]
    /\ score' = [score EXCEPT ![c] = 0]
    /\ trace' = [trace EXCEPT ![c] = [NoTrace EXCEPT !.calm = calm,
                                                     !.hit = CacheHit(s),
                                                     !.gen = cache_gen[s]]]
    /\ IF CacheHit(s)
       THEN /\ aggregated' = [aggregated EXCEPT ![c] = price_cache[s].price]
            /\ pc' = [pc EXCEPT ![c] = "analyze"]
       ELSE /\ aggregated' = [aggregated EXCEPT ![c] = NoPrice]
            /\ pc' = [pc EXCEPT ![c] = "fetch"]
    /\ UNCHANGED <<now, price_cache, price_history, price_feeds, channel,
                   result, cache_gen, advances>>

\* get_aggregated_price: join_all over the clients, the empty check and
\* calculate_aggregated_price
FetchAndAggregate(c, menu) ==
    /\ pc[c] = "fetch"
    /\ \E results \in PollOutcomes(menu, sym[c], UnixTime) :
         LET agg == AggregateOutcome(sym[c], results, UnixTime)
         IN /\ trace' = [trace EXCEPT ![c].polled = TRUE, ![c].polled_at = UnixTime,
                                      ![c].fetched = results]
            /\ IF ~agg.ok
               THEN /\ ReturnErr(c, agg.err)
                    /\ UNCHANGED aggregated
               ELSE /\ aggregated' = [aggregated EXCEPT ![c] = agg.value]
                    /\ pc' = [pc EXCEPT ![c] = "store"]
                    /\ UNCHANGED result
    /\ UNCHANGED <<now, price_cache, price_history, price_feeds, channel,
                   sym, score, cache_gen, calls, advances>>

\* variant: the insert reports success without writing a row
InsertedRows_Nothing(price, created_at, db_ok) == << >>

\* store_price_data: the rows the INSERT adds to price_feeds
InsertedRows(price, created_at, db_ok) ==
    IF db_ok THEN <<PriceFeedRow(price, created_at)>> ELSE << >>

\* variant: a failed insert is not reported
StoreResult_Ignored(db_ok) == Ok(TRUE)

\* store_price_data: .execute(&self.db_pool).await?
StoreResult(db_ok) == IF db_ok THEN Ok(TRUE) ELSE Err("StoreFailed")

\* get_aggregated_price: store_price_data(&aggregated).await?
StorePriceData(c, db_outcomes) ==
    /\ pc[c] = "store"
    /\ \E db_ok \in db_outcomes :
         LET rows == InsertedRows(aggregated[c], UnixTime, db_ok)
             stored == StoreResult(db_ok)
         IN /\ price_feeds' = price_feeds \o rows
            /\ trace' = [trace EXCEPT ![c].rows = @ + Len(rows),
                                      ![c].row_at = IF rows = << >> THEN @
                                                    ELSE Len(price_feeds) + 1]
            /\ IF stored.ok
               THEN /\ pc' = [pc EXCEPT ![c] = "cache_put"]
                    /\ UNCHANGED result
               ELSE ReturnErr(c, stored.err)
    /\ UNCHANGED <<now, price_cache, price_history, channel, sym, aggregated,
                   score, cache_gen, calls, advances>>

\* get_aggregated_price: cache.insert(symbol, (aggregated, Instant::now()))
UpdateCache(c) ==
    /\ pc[c] = "cache_put"
    /\ price_cache' = [price_cache EXCEPT ![sym[c]] =
                          [present |-> TRUE, price |-> aggregated[c], cached_at |-> now]]
    /\ cache_gen' = [cache_gen EXCEPT ![sym[c]] = @ + 1]
    /\ trace' = [trace EXCEPT ![c].cached = @ + 1]
    /\ pc' = [pc EXCEPT ![c] = "analyze"]
    /\ UNCHANGED <<now, price_history, price_feeds, channel, sym, aggregated,
                   score, result, calls, advances>>

\* analyze_price, validate_price_sources, validate_price_freshness, then
\* either the threshold branch is entered or the event is sent and the
\* price returned
AnalyzeAndValidate(c) ==
    /\ pc[c] = "analyze"
    /\ LET s == sym[c]
           price == aggregated[c]
           history == PushAndTrim(price_history[s], price.mark_price, price.timestamp)
           manipulation_score == calculate_manipulation_score(history, price.mark_price)
           validation == Validate(price, UnixTime)
           sent == SentOnValidation(validation, manipulation_score,
                                    UpdateEvent(price, manipulation_score))
       IN /\ price_history' = [price_history EXCEPT ![s] = history]
          /\ score' = [score EXCEPT ![c] = manipulation_score]
          /\ channel' = channel \o sent
          /\ trace' = [trace EXCEPT ![c].analyzed = @ + 1,
                                    ![c].validated = validation.ok,
                                    ![c].sent = @ \o sent,
                                    ![c].sent_at = IF sent = << >> THEN 0
                                                   ELSE Len(channel) + 1,
                                    ![c].receivers = IF sent = << >> THEN -1
                                                     ELSE Receivers,
                                    ![c].returned_at = now]
          /\ IF ~validation.ok
             THEN ReturnErr(c, validation.err)
             ELSE IF manipulation_score > ManipulationThreshold
             THEN /\ pc' = [pc EXCEPT ![c] = "conservative"]
                  /\ UNCHANGED result
             ELSE ReturnPublished(c, price)
    /\ UNCHANGED <<now, price_cache, price_feeds, sym, aggregated, cache_gen,
                   calls, advances>>

\* apply_conservative_pricing(&aggregated_price).await?, then the send and
\* the return
ApplyConservativePricing(c, db_outcomes) ==
    /\ pc[c] = "conservative"
    /\ \E db_ok \in db_outcomes :
         LET historical_avg == get_historical_average(db_ok, HistoricalAverage(sym[c], UnixTime))
         IN IF ~historical_avg.ok
            THEN /\ ReturnErr(c, historical_avg.err)
                 /\ UNCHANGED <<channel, trace>>
            ELSE LET adjusted == ConservativePrice(aggregated[c], historical_avg.value)
                 IN /\ channel' = Append(channel, UpdateEvent(adjusted, score[c]))
                    /\ trace' = [trace EXCEPT ![c].havg = historical_avg.value,
                                              ![c].sent = Append(@, UpdateEvent(adjusted, score[c])),
                                              ![c].sent_at = Len(channel) + 1,
                                              ![c].receivers = Receivers,
                                              ![c].returned_at = now]
                    /\ ReturnPublished(c, adjusted)
    /\ UNCHANGED <<now, price_cache, price_history, price_feeds, sym,
                   aggregated, score, cache_gen, calls, advances>>

\* time passes
ClockSteps == {PollIntervalMs, 1000, 31000}

AdvanceClock(max_advances) ==
    /\ advances < max_advances
    /\ \E d \in ClockSteps : now' = now + d
    /\ advances' = advances + 1
    /\ UNCHANGED <<price_cache, price_history, price_feeds, channel, pc, sym,
                   aggregated, score, result, trace, cache_gen, calls>>

-----------------------------------------------------------------------------
(* The manipulation score is 0.0 until a symbol's history holds            *)
(* MinHistoryPoints points.  A run is observed either from the cold start  *)
(* or after a warm-up of WarmPoints calls made in quick succession by the  *)
(* monitoring loop, during which one adapter is down, the other quotes P   *)
(* and the history store accepts every insert.                             *)

Warm(s) == Len(price_history[s]) >= WarmPoints
Cold(s) == price_history[s] = << >>

WarmingUp == \E c \in Callers : pc[c] # "idle" /\ trace[c].calm

\* the warm-up is over or was not begun
Settled == ~WarmingUp /\ \A s \in Requested : Cold(s) \/ Warm(s)

WarmUpCall(c, s) ==
    /\ c = "monitor"
    /\ ~Warm(s)
    /\ calls = 0 /\ advances = 0
    /\ BeginCall(c, s, TRUE)
    /\ UNCHANGED others

(* Specification: the monitoring loop and a request handler call           *)
(* get_price_with_validation concurrently on one engine; adapters and the  *)
(* history store answer arbitrarily.                                       *)

Call(c, s) ==
    /\ Settled
    /\ calls < MaxCalls
    /\ BeginCall(c, s, FALSE)
    /\ UNCHANGED others
Fetch(c) ==
    /\ FetchAndAggregate(c, IF trace[c].calm THEN CalmMenu ELSE QuoteMenu)
    /\ UNCHANGED others
Store(c) ==
    /\ StorePriceData(c, IF trace[c].calm THEN {TRUE} ELSE BOOLEAN)
    /\ UNCHANGED others
CachePut(c) == UpdateCache(c) /\ UNCHANGED others
Analyze(c) == AnalyzeAndValidate(c) /\ UNCHANGED others
Conservative(c) == ApplyConservativePricing(c, BOOLEAN) /\ UNCHANGED others
Tick == Settled /\ AdvanceClock(MaxAdvances) /\ UNCHANGED others

Next ==
    \/ \E c \in Callers, s \in Requested : WarmUpCall(c, s)
    \/ \E c \in Callers, s \in Requested : Call(c, s)
    \/ \E c \in Callers : Fetch(c)
    \/ \E c \in Callers : Store(c)
    \/ \E c \in Callers : CachePut(c)
    \/ \E c \in Callers : Analyze(c)
    \/ \E c \in Callers : Conservative(c)
    \/ Tick

Spec == Init /\ [][Next]_vars

(* Specification of a steady market: after the warm-up the quote may jump  *)
(* by 30% and the second adapter may come back; the history store accepts  *)
(* every insert, the historical-mean query may fail.                       *)

SteadyCall(c, s) ==
    /\ ~WarmingUp /\ Warm(s)
    /\ calls < MaxSteadyCalls
    /\ BeginCall(c, s, FALSE)
    /\ UNCHANGED others
SteadyFetch(c) ==
    /\ FetchAndAggregate(c, IF trace[c].calm THEN CalmMenu ELSE JumpMenu)
    /\ UNCHANGED others
SteadyStore(c) == StorePriceData(c, {TRUE}) /\ UNCHANGED others
SteadyTick == Settled /\ AdvanceClock(MaxSteadyAdvances) /\ UNCHANGED others

NextSteady ==
    \/ \E c \in Callers, s \in Requested : WarmUpCall(c, s)
    \/ \E c \in Callers, s \in Requested : SteadyCall(c, s)
    \/ \E c \in Callers : SteadyFetch(c)
    \/ \E c \in Callers : SteadyStore(c)
    \/ \E c \in Callers : CachePut(c)
    \/ \E c \in Callers : Analyze(c)
    \/ \E c \in Callers : Conservative(c)
    \/ SteadyTick

SpecSteady == Init /\ [][NextSteady]_vars

-----------------------------------------------------------------------------
(* Specification of the monitoring loop, start_continuous_monitoring: on   *)
(* every tick of the 250 ms interval it calls get_price_with_validation    *)
(* for each monitored symbol in list order, logs the outcome and sleeps    *)
(* 10 ms.  The adapters answer the first MaxMonitorAnswers calls           *)
(* arbitrarily and are down afterwards; adapter and store calls return.    *)
(* The clock is followed as long as it can influence a call.               *)

ClockMatters ==
    \/ calls < MaxMonitorAnswers
    \/ \E s \in Symbols : CacheHit(s)

\* variant: the error of a call ends the loop
MonitorAfterCall_Propagates(outcome) ==
    IF outcome.kind = "err" THEN "stopped" ELSE "sleep"

\* match .. { Ok(price) => debug!(..), Err(e) => error!(..) }
MonitorAfterCall(outcome) == "sleep"

\* tokio::spawn(.. start_continuous_monitoring(symbols) ..)
MonitorStart ==
    /\ monitor.phase = "off"
    /\ monitor' = [phase |-> "tick", index |-> 0]
    /\ UNCHANGED <<now, price_cache, price_history, price_feeds, channel, pc,
                   sym, aggregated, score, result, trace, cache_gen, calls,
                   advances, subscribers, probe, switchboard>>

\* interval.tick().await: the first tick completes at once, the next ones
\* at the multiples of the period
MonitorTick ==
    /\ monitor.phase = "tick"
    /\ monitor' = [phase |-> "call", index |-> 1]
    /\ now' = IF monitor.index = 0 \/ ~ClockMatters THEN now
              ELSE (now \div PollIntervalMs + 1) * PollIntervalMs
    /\ UNCHANGED <<price_cache, price_history, price_feeds, channel, pc,
                   sym, aggregated, score, result, trace, cache_gen, calls,
                   advances, subscribers, probe, switchboard>>

\* self.get_price_with_validation(symbol) is entered
MonitorCall ==
    /\ monitor.phase = "call"
    /\ BeginCall("monitor", MonitoredSymbols[monitor.index], calls >= MaxMonitorAnswers)
    /\ monitor' = [monitor EXCEPT !.phase = "match"]
    /\ UNCHANGED <<subscribers, probe, switchboard>>

MonitorFetch ==
    /\ FetchAndAggregate("monitor", IF trace["monitor"].calm THEN DownMenu ELSE QuoteMenu)
    /\ UNCHANGED others

\* the call has returned: the match arms
MonitorMatch ==
    /\ monitor.phase = "match"
    /\ pc["monitor"] = "idle"
    /\ monitor' = [monitor EXCEPT !.phase = MonitorAfterCall(result["monitor"])]
    /\ UNCHANGED <<now, price_cache, price_history, price_feeds, channel, pc,
                   sym, aggregated, score, result, trace, cache_gen, calls,
                   advances, subscribers, probe, switchboard>>

\* tokio::time::sleep(10 ms), then the next symbol or the next tick
MonitorSleep ==
    /\ monitor.phase = "sleep"
    /\ monitor' = IF monitor.index < Len(MonitoredSymbols)
                  THEN [phase |-> "call", index |-> monitor.index + 1]
                  ELSE [phase |-> "tick", index |-> monitor.index]
    /\ now' = IF ClockMatters THEN now + SymbolDelayMs ELSE now
    /\ UNCHANGED <<price_cache, price_history, price_feeds, channel, pc,
                   sym, aggregated, score, result, trace, cache_gen, calls,
                   advances, subscribers, probe, switchboard>>

NextMonitor ==
    \/ MonitorStart
    \/ MonitorTick
    \/ MonitorCall
    \/ MonitorFetch
    \/ Store("monitor")
    \/ CachePut("monitor")
    \/ Analyze("monitor")
    \/ MonitorMatch
    \/ MonitorSleep

\* the runtime keeps scheduling the task, and every awaited call returns
SpecMonitor == Init /\ [][NextMonitor]_vars /\ WF_vars(NextMonitor)

-----------------------------------------------------------------------------
(* Specification of the broadcast channel: WebSocket connections subscribe *)
(* and forward what they receive while the monitoring loop publishes.  The *)
(* channel retains the last ChannelCapacity events; a receiver that is     *)
(* further behind is told so by recv, which ends its forwarding loop.      *)
(* The market is steady and the history store accepts every insert.        *)

\* get_price_receiver: price_broadcaster.subscribe()
Subscribe(k) ==
    /\ subscribers[k] = NoReceiver
    /\ subscribers' = [subscribers EXCEPT ![k] =
                          [open |-> TRUE, start |-> Len(channel), next |-> Len(channel),
                           received |-> << >>, lost |-> 0]]
    /\ UNCHANGED <<now, price_cache, price_history, price_feeds, channel, pc,
                   sym, aggregated, score, result, trace, cache_gen, calls,
                   advances, monitor, probe, switchboard>>

\* the events the receiver is behind by
Unread(k) == Len(channel) - subscribers[k].next

\* while let Ok(update) = price_receiver.recv().await { forward }
Recv(k) ==
    /\ subscribers[k].open
    /\ Unread(k) > 0
    /\ subscribers' = [subscribers EXCEPT ![k] =
          IF Unread(k) > ChannelCapacity
          THEN [@ EXCEPT !.open = FALSE, !.lost = Unread(k) - ChannelCapacity]
          ELSE [@ EXCEPT !.next = @ + 1,
                         !.received = Append(@, channel[subscribers[k].next + 1])]]
    /\ UNCHANGED <<now, price_cache, price_history, price_feeds, channel, pc,
                   sym, aggregated, score, result, trace, cache_gen, calls,
                   advances, monitor, probe, switchboard>>

BroadcastCall(s) ==
    /\ calls < MaxBroadcastCalls
    /\ BeginCall("monitor", s, FALSE)
    /\ UNCHANGED others
BroadcastFetch ==
    /\ FetchAndAggregate("monitor", CalmMenu)
    /\ UNCHANGED others
BroadcastStore == StorePriceData("monitor", {TRUE}) /\ UNCHANGED others

NextBroadcast ==
    \/ \E k \in Subscribers : Subscribe(k)
    \/ \E k \in Subscribers : Recv(k)
    \/ \E s \in Requested : BroadcastCall(s)
    \/ BroadcastFetch
    \/ BroadcastStore
    \/ CachePut("monitor")
    \/ Analyze("monitor")

SpecBroadcast == Init /\ [][NextBroadcast]_vars

-----------------------------------------------------------------------------
(* Specification of the reconciler called directly:                        *)
(* calculate_aggregated_price on a list of quotes, and on the same list    *)
(* with one more quote, published more than 30 s ago, inserted; then       *)
(* validate_price_sources on what the reconciler returned.                 *)

ProbeTime == 100
ProbeSymbol == "BTC/USD"

\* quotes of an adapter: price 100.0 or 100.1, confidence 0, 5.0 or 6.0,
\* published 0, 30 or 31 s ago, or dated 10 s ahead of the clock
ProbeQuotes ==
    { Quote(ProbeSymbol, p, c, age, ProbeTime, "Pyth") :
        p \in {1000, 1001}, c \in {0, 50, 60}, age \in {0, 30, 31, -10} }

OldQuotes ==
    { Quote(ProbeSymbol, p, c, age, ProbeTime, "Switchboard") :
        p \in {1300}, c \in {0, 60}, age \in {31, 90} }

QuoteLists ==
    UNION { [1..n -> ProbeQuotes] : n \in 1..MaxProbeQuotes }

\* list qs with quote q inserted after position k
InsertAt(qs, k, q) == SubSeq(qs, 1, k) \o <<q>> \o SubSeq(qs, k + 1, Len(qs))

InitReconcile ==
    /\ InitEngine
    /\ monitor = NotMonitoring
    /\ subscribers = [k \in Subscribers |-> NoReceiver]
    /\ switchboard = NewSwitchboard
    /\ \E qs \in QuoteLists, q \in OldQuotes :
         \E k \in 0..Len(qs) :
             probe = [op |-> "reconcile", stage |-> "input",
                      prices |-> qs, with_old |-> InsertAt(qs, k, q)]

Reconcile ==
    /\ probe.op = "reconcile" /\ probe.stage = "input"
    /\ probe' = [op |-> "reconcile", stage |-> "reconciled",
                 prices |-> probe.prices, with_old |-> probe.with_old,
                 out |-> calculate_aggregated_price(ProbeSymbol, probe.prices, ProbeTime),
                 out_with_old |->
                     calculate_aggregated_price(ProbeSymbol, probe.with_old, ProbeTime)]
    /\ UNCHANGED <<now, price_cache, price_history, price_feeds, channel, pc,
                   sym, aggregated, score, result, trace, cache_gen, calls,
                   advances, monitor, subscribers, switchboard>>

ValidateReconciled ==
    /\ probe.op = "reconcile" /\ probe.stage = "reconciled"
    /\ probe.out.ok
    /\ probe' = [op |-> "reconcile", stage |-> "validated",
                 prices |-> probe.prices, with_old |-> probe.with_old,
                 out |-> probe.out, out_with_old |-> probe.out_with_old,
                 validation |-> validate_price_sources(probe.out.value)]
    /\ UNCHANGED <<now, price_cache, price_history, price_feeds, channel, pc,
                   sym, aggregated, score, result, trace, cache_gen, calls,
                   advances, monitor, subscribers, switchboard>>

NextReconcile == Reconcile \/ ValidateReconciled

SpecReconcile == InitReconcile /\ [][NextReconcile]_vars

-----------------------------------------------------------------------------
(* Specification of the detector called directly: analyze_price on a       *)
(* history of up to MaxProbeHistory points at 100.0, one of which may be a *)
(* spike to 130.0, with a new point that is at the same second, 10 s       *)
(* earlier or 301 s later.                                                 *)

\* n points at 100.0 at second ProbeTime; point k, if any, is 130.0
SpikedHistory(n, k) ==
    [i \in 1..n |-> <<IF i = k THEN 1300 ELSE 1000, ProbeTime>>]

ProbeHistories ==
    { SpikedHistory(n, k) : n \in 0..Min(MaxProbeHistory, MaxHistorySize),
                            k \in 0..MaxProbeHistory }

InitDetector ==
    /\ InitEngine
    /\ monitor = NotMonitoring
    /\ subscribers = [k \in Subscribers |-> NoReceiver]
    /\ switchboard = NewSwitchboard
    /\ \E h \in ProbeHistories :
         probe = [op |-> "analyze", analyses |-> 0, history |-> h]

AnalyzeDirect ==
    /\ probe.op = "analyze"
    /\ probe.analyses < MaxProbeAnalyses
    /\ \E price \in {1000, 1300}, timestamp \in {ProbeTime, ProbeTime - 10, ProbeTime + 301} :
         LET prices == PushAndTrim(probe.history, price, timestamp)
         IN probe' = [op |-> "analyze", analyses |-> probe.analyses + 1,
                      history |-> prices,
                      before |-> probe.history,
                      price |-> price, timestamp |-> timestamp,
                      score |-> calculate_manipulation_score(prices, price)]
    /\ UNCHANGED <<now, price_cache, price_history, price_feeds, channel, pc,
                   sym, aggregated, score, result, trace, cache_gen, calls,
                   advances, monitor, subscribers, switchboard>>

NextDetector == AnalyzeDirect

SpecDetector == InitDetector /\ [][NextDetector]_vars

-----------------------------------------------------------------------------
(* The adapters.  PythClient::get_price is a function of what the upstream *)
(* answers; SwitchboardClient::get_price goes through fetch_account_data,  *)
(* which holds a permit of rate_limiter, looks at last_request_time and    *)
(* may sleep before it sends.                                              *)

\* what the Hermes endpoint may do: the request fails, the body is not
\* JSON, has no `parsed` array, an empty one, a feed without a price string,
\* or a feed (price, conf, expo, seconds since publish_time)
Feed(price, conf, expo, age) ==
    [kind |-> "feed", price |-> price, conf |-> conf, expo |-> expo, age |-> age]

PythUpstream ==
    { [kind |-> k] : k \in {"timeout", "network", "malformed", "no_parsed",
                            "empty", "no_price"} }
    \cup { Feed(1000, 5, -1, 0), Feed(1000, 5, -1, 40), Feed(0, 5, -1, 0),
           Feed(-1000, 5, -1, 0), Feed(2000000, 0, 0, 0) }

\* (value as f64) * 10^expo in units of 1/PriceUnit, for expo in {-1, 0}
Normalize(value, expo) == IF expo = -1 THEN value ELSE value * PriceUnit

PythGetPrice(symbol, upstream, t) ==
    CASE upstream.kind \in {"timeout", "network"} -> Err("Request")
      [] upstream.kind = "malformed" -> Err("Parse")
      [] upstream.kind = "no_parsed" -> Err("NoParsedData")
      [] upstream.kind = "empty" -> Err("NoPriceData")
      [] upstream.kind = "no_price" -> Err("PriceNotFound")
      [] OTHER ->
            LET normalized_price == Normalize(upstream.price, upstream.expo)
                normalized_confidence == Normalize(upstream.conf, upstream.expo)
            IN IF normalized_price <= 0 \/ normalized_price > MaxReasonablePrice
               THEN Err("InvalidPrice")
               ELSE Ok(Quote(symbol, normalized_price, Abs(normalized_confidence),
                             upstream.age, t, "Pyth"))

\* what the JSON-RPC endpoint may do: the request fails, the body is not
\* JSON, carries an `error` field, has no result.value object, or has one
\* with or without a `data` array
SwitchboardUpstream ==
    {"timeout", "network", "malformed", "rpc_error", "no_value",
     "account_without_data", "account"}

SendFailed(upstream) == upstream \in {"timeout", "network"}

\* the result of fetch_account_data
FetchAccountData(upstream) ==
    CASE SendFailed(upstream) -> Err("Request")
      [] upstream = "malformed" -> Err("Parse")
      [] upstream = "rpc_error" -> Err("RpcError")
      [] upstream = "no_value" -> Err("InvalidAccountData")
      [] upstream = "account_without_data" -> Ok([data |-> FALSE])
      [] OTHER -> Ok([data |-> TRUE])

\* get_mock_price_internal: the base price of the symbol moved by a
\* variance in -1% .. +0.99% that depends on a hash of the minute
BasePrice(symbol) ==
    CASE symbol = "BTC/USD" -> 65000 * PriceUnit
      [] symbol = "ETH/USD" -> 3500 * PriceUnit
      [] symbol = "SOL/USD" -> 150 * PriceUnit
      [] symbol = "AVAX/USD" -> 35 * PriceUnit
      [] OTHER -> 100 * PriceUnit

Variances == {-100, 0, 99}

MockPrice(symbol, variance, t) ==
    LET mock_price == BasePrice(symbol) + (BasePrice(symbol) * variance) \div VarianceUnit
    IN Quote(symbol, mock_price, mock_price \div 1000, 0, t, "Switchboard")

\* the match in SwitchboardClient::get_price
SwitchboardGetPrice(fetched, mock) ==
    IF fetched.ok
    THEN IF fetched.value.data THEN Ok(mock) ELSE Err("NoDataField")
    ELSE Ok(mock)

\* variant: acquire never waits
PermitAvailable_Always(permits) == TRUE

\* rate_limiter.acquire() returns when a permit is free
PermitAvailable(permits) == permits > 0

InFlight == {t \in Tasks : switchboard.task[t].pc = "in_flight"}

\* self.client.post(..).send(): the request leaves at `now`
SendRequest(t, permits) ==
    switchboard' = [switchboard EXCEPT !.permits = permits,
                                       !.task[t].pc = "in_flight",
                                       !.task[t].sent_at = now,
                                       !.requests = Append(@, now)]

engine == <<price_cache, price_history, price_feeds, channel, pc, sym,
            aggregated, score, result, trace, cache_gen>>

\* get_price is entered: get_aggregator_address, then fetch_account_data
\* waits for a permit
SwitchboardCall(t, max_calls) ==
    /\ switchboard.task[t].pc = "idle"
    /\ calls < max_calls
    /\ calls' = calls + 1
    /\ switchboard' = [switchboard EXCEPT !.task[t] = [IdleTask EXCEPT !.pc = "acquire"]]
    /\ UNCHANGED <<now, advances, engine, monitor, subscribers, probe>>

\* the permit is taken and last_request_time is read: the request is sent
\* at once, or after a sleep of the rest of the 500 ms
AcquirePermit(t) ==
    /\ switchboard.task[t].pc = "acquire"
    /\ PermitAvailable(switchboard.permits)
    /\ LET elapsed == now - switchboard.last_request_time
       IN IF elapsed < MinRequestGapMs
          THEN switchboard' = [switchboard EXCEPT
                                  !.permits = @ - 1,
                                  !.task[t].pc = "sleep",
                                  !.task[t].wake_at = now + MinRequestGapMs - elapsed]
          ELSE SendRequest(t, switchboard.permits - 1)
    /\ UNCHANGED <<now, calls, advances, engine, monitor, subscribers, probe>>

\* the sleep is over
WakeAndSend(t) ==
    /\ switchboard.task[t].pc = "sleep"
    /\ now >= switchboard.task[t].wake_at
    /\ SendRequest(t, switchboard.permits)
    /\ UNCHANGED <<now, calls, advances, engine, monitor, subscribers, probe>>

\* variant: the permit is kept when the request failed
PermitsReleased_OnSuccess(upstream) == IF SendFailed(upstream) THEN 0 ELSE 1

\* `_permit` is dropped when fetch_account_data returns, on every path
PermitsReleased(upstream) == 1

\* the request ends: on a response last_request_time is written and the
\* body looked at; the permit is dropped and get_price returns
SwitchboardRespond(t, upstreams, variances) ==
    /\ switchboard.task[t].pc = "in_flight"
    /\ \E upstream \in upstreams, variance \in variances :
         /\ upstream = "timeout" => now - switchboard.task[t].sent_at >= RequestTimeoutMs
         /\ switchboard' =
              [switchboard EXCEPT
                 !.permits = @ + PermitsReleased(upstream),
                 !.last_request_time = IF SendFailed(upstream) THEN @ ELSE now,
                 !.task[t].pc = "idle",
                 !.task[t].upstream = upstream,
                 !.task[t].result =
                     SwitchboardGetPrice(FetchAccountData(upstream),
                                         MockPrice(ProbeSymbol, variance, UnixTime))]
    /\ UNCHANGED <<now, calls, advances, engine, monitor, subscribers, probe>>

\* PythClient::get_price is called once
PythCall ==
    /\ probe.op = "none"
    /\ \E upstream \in PythUpstream :
         probe' = [op |-> "pyth", upstream |-> upstream,
                   out |-> PythGetPrice(ProbeSymbol, upstream, UnixTime)]
    /\ UNCHANGED <<now, calls, advances, engine, monitor, subscribers, switchboard>>

AdapterSteps == {100, MinRequestGapMs, RequestTimeoutMs}

AdapterClock(max_advances) ==
    /\ advances < max_advances
    /\ \E d \in AdapterSteps : now' = now + d
    /\ advances' = advances + 1
    /\ UNCHANGED <<calls, engine, monitor, subscribers, probe, switchboard>>

(* Specification of the adapters: callers of SwitchboardClient::get_price  *)
(* and one call of PythClient::get_price; the upstreams answer arbitrarily *)

GetQuote(t) == SwitchboardCall(t, MaxAdapterCalls)
Respond(t) == SwitchboardRespond(t, SwitchboardUpstream, Variances)
AdapterTick == AdapterClock(MaxAdapterAdvances)

NextAdapters ==
    \/ \E t \in Tasks : GetQuote(t)
    \/ \E t \in Tasks : AcquirePermit(t)
    \/ \E t \in Tasks : WakeAndSend(t)
    \/ \E t \in Tasks : Respond(t)
    \/ PythCall
    \/ AdapterTick

SpecAdapters == Init /\ [][NextAdapters]_vars

(* Specification of the rate limiter: up to three concurrent callers of    *)
(* one SwitchboardClient; a request is answered with an account, fails at  *)
(* once or times out.                                                      *)

LimiterUpstream == {"timeout", "network", "account"}

LimitedCall(t) == SwitchboardCall(t, MaxLimiterCalls)
LimitedRespond(t) == SwitchboardRespond(t, LimiterUpstream, {0})
LimiterTick == AdapterClock(MaxLimiterAdvances)

NextLimiter ==
    \/ \E t \in Tasks : LimitedCall(t)
    \/ \E t \in Tasks : AcquirePermit(t)
    \/ \E t \in Tasks : WakeAndSend(t)
    \/ \E t \in Tasks : LimitedRespond(t)
    \/ LimiterTick

SpecLimiter == Init /\ [][NextLimiter]_vars

-----------------------------------------------------------------------------
(* get_manipulation_report(symbol, hours): the rows of the symbol in the   *)
(* history store since the cutoff, newest first, are replayed one by one   *)
(* through manipulation_detector.analyze_price.                            *)

\* SELECT .. WHERE symbol = $1 AND timestamp >= $2 ORDER BY timestamp DESC;
\* price_feeds is in insertion order, which is the order of created_at
ReportRows(symbol, cutoff_time) ==
    LET rows == SelectSeq(price_feeds, LAMBDA r : r.symbol = symbol
                                                  /\ r.created_at >= cutoff_time)
    IN [i \in 1..Len(rows) |-> rows[Len(rows) + 1 - i]]

\* the loop over the rows: the detector's history of the symbol, the events
\* collected and last_score
RECURSIVE ReplayRows(_, _, _, _)
ReplayRows(prices, rows, last_score, manipulation_events) ==
    IF rows = << >>
    THEN [history |-> prices, manipulation_events |-> manipulation_events,
          last_score |-> last_score]
    ELSE LET row == Head(rows)
             history == PushAndTrim(prices, row.mark_price, row.created_at)
             row_score == calculate_manipulation_score(history, row.mark_price)
             event == [timestamp |-> row.created_at, price |-> row.mark_price,
                       manipulation_score |-> row_score,
                       confidence |-> row.confidence]
         IN ReplayRows(history, Tail(rows), row_score,
                       IF row_score > ManipulationThreshold
                          /\ row_score > last_score + ScoreUnit \div 10
                       THEN Append(manipulation_events, event)
                       ELSE manipulation_events)

\* the report returned and the detector's history of the symbol afterwards;
\* latest_score -1 stands for a report without that field
get_manipulation_report(symbol, hours, db_ok, prices, current_time) ==
    IF ~db_ok THEN [result |-> Err("HistoryUnavailable"), history |-> prices]
    ELSE LET rows == ReportRows(symbol, current_time - hours * 3600)
             replay == ReplayRows(prices, rows, 0, << >>)
         IN IF rows = << >>
            THEN [result |-> Ok([symbol |-> symbol, period_hours |-> hours,
                                 data_points |-> 0, manipulation_events |-> << >>,
                                 latest_score |-> -1]),
                  history |-> prices]
            ELSE [result |-> Ok([symbol |-> symbol, period_hours |-> hours,
                                 data_points |-> Len(rows),
                                 manipulation_events |-> replay.manipulation_events,
                                 latest_score |-> replay.last_score]),
                  history |-> replay.history]

ReportHours == {1}

ReportsDone == IF probe.op = "report" THEN probe.reports ELSE 0

\* GET /api/v1/manipulation
ManipulationReport(s) ==
    /\ ReportsDone < MaxReports
    /\ \E hours \in ReportHours, db_ok \in BOOLEAN :
         LET report == get_manipulation_report(s, hours, db_ok, price_history[s], UnixTime)
         IN /\ price_history' = [price_history EXCEPT ![s] = report.history]
            /\ probe' = [op |-> "report", reports |-> ReportsDone + 1,
                         symbol |-> s, db_ok |-> db_ok,
                         before |-> price_history[s], after |-> report.history,
                         out |-> report.result]
    /\ UNCHANGED <<now, price_cache, price_feeds, channel, pc, sym, aggregated,
                   score, result, trace, cache_gen, calls, advances, monitor,
                   subscribers, switchboard>>

(* Specification of the report: the monitoring loop polls a steady market  *)
(* with one adapter down, seconds or minutes apart, and reports are        *)
(* requested in between; the history store accepts every insert and may    *)
(* fail the report's query.                                                *)

ReportSteps == {1000, 301000}

ReportPoll(s) ==
    /\ calls < MaxReportCalls
    /\ BeginCall("monitor", s, FALSE)
    /\ UNCHANGED others
ReportFetch ==
    /\ FetchAndAggregate("monitor", CalmMenu)
    /\ UNCHANGED others
ReportStore == StorePriceData("monitor", {TRUE}) /\ UNCHANGED others
ReportTick ==
    /\ advances < MaxReportAdvances
    /\ \E d \in ReportSteps : now' = now + d
    /\ advances' = advances + 1
    /\ UNCHANGED <<calls, engine, others>>

NextReport ==
    \/ \E s \in Requested : ReportPoll(s)
    \/ ReportFetch
    \/ ReportStore
    \/ CachePut("monitor")
    \/ Analyze("monitor")
    \/ \E s \in Requested : ManipulationReport(s)
    \/ ReportTick

SpecReport == Init /\ [][NextReport]_vars

(* PythClient::get_multiple_prices: one request for the feeds of all the   *)
(* symbols that have a feed id; the entries of `parsed` are read in order. *)

\* price_feed_ids, and a symbol the map does not hold
PriceFeedIds == [s \in {"BTC/USD", "ETH/USD"} |->
                    IF s = "BTC/USD" THEN "0xe62d" ELSE "0xff61"]
BatchSymbols == DOMAIN PriceFeedIds \cup {"DOGE/USD"}

get_price_feed_id(symbol) ==
    IF symbol \in DOMAIN PriceFeedIds THEN Ok(PriceFeedIds[symbol])
    ELSE Err("NoFeedId")

\* the feed ids of the symbols that have one, in the order of the request
RECURSIVE FeedIdsOf(_)
FeedIdsOf(symbols) ==
    IF symbols = << >> THEN << >>
    ELSE LET feed_id == get_price_feed_id(Head(symbols))
         IN (IF feed_id.ok THEN <<feed_id.value>> ELSE << >>)
            \o FeedIdsOf(Tail(symbols))

\* what the endpoint may answer for one feed id
BatchFeeds ==
    { [kind |-> "no_price"], Feed(1000, 5, -1, 0), Feed(0, 5, -1, 0),
      Feed(-1000, 5, -1, 0), Feed(2000000, 0, 0, 0) }

\* the bodies the endpoint may answer: a failure, or `parsed` with one
\* entry per requested id, in the order of the request
BatchUpstream(feed_ids) ==
    { [kind |-> k] : k \in {"timeout", "network", "malformed", "no_parsed"} }
    \cup { [kind |-> "parsed",
            parsed |-> [i \in 1..Len(feed_ids) |->
                           [id |-> feed_ids[i], price |-> body[feed_ids[i]]]]] :
           body \in [{feed_ids[i] : i \in 1..Len(feed_ids)} -> BatchFeeds] }

parse_price_feed(symbol, feed, t) ==
    IF feed.price.kind = "no_price" THEN Err("PriceNotFound")
    ELSE Ok(Quote(symbol, Normalize(feed.price.price, feed.price.expo),
                  Normalize(feed.price.conf, feed.price.expo),
                  feed.price.age, t, "Pyth"))

\* the loop over feeds.iter().enumerate(): entry i is parsed under
\* symbols[i]; `from` keeps the id of the entry a quote was read from
RECURSIVE ParsedResults(_, _, _, _)
ParsedResults(symbols, feeds, i, t) ==
    IF i > Len(feeds) THEN << >>
    ELSE LET price_data == IF i <= Len(symbols)
                           THEN parse_price_feed(symbols[i], feeds[i], t)
                           ELSE Err("NoSymbol")
         IN (IF price_data.ok
             THEN <<[quote |-> price_data.value, from |-> feeds[i].id]>>
             ELSE << >>)
            \o ParsedResults(symbols, feeds, i + 1, t)

get_multiple_prices(symbols, upstream, t) ==
    CASE FeedIdsOf(symbols) = << >> -> Err("NoValidFeedIds")
      [] upstream.kind \in {"timeout", "network"} -> Err("Request")
      [] upstream.kind = "malformed" -> Err("Parse")
      [] upstream.kind = "no_parsed" -> Err("InvalidResponseFormat")
      [] OTHER -> Ok(ParsedResults(symbols, upstream.parsed, 1, t))

\* the requests: lists of distinct symbols
BatchRequests ==
    { symbols \in UNION { [1..n -> BatchSymbols] : n \in 1..MaxBatchLen } :
        \A i, j \in 1..Len(symbols) : symbols[i] = symbols[j] => i = j }

BatchCall ==
    /\ probe.op = "none"
    /\ \E symbols \in BatchRequests :
         \E upstream \in BatchUpstream(FeedIdsOf(symbols)) :
            probe' = [op |-> "batch", symbols |-> symbols, upstream |-> upstream,
                      out |-> get_multiple_prices(symbols, upstream, UnixTime)]
    /\ UNCHANGED <<now, calls, advances, engine, monitor, subscribers, switchboard>>

(* Specification of the HTTPS adapter: one call of get_price or of         *)
(* get_multiple_prices, answered arbitrarily.                              *)

NextPyth == PythCall \/ BatchCall

SpecPyth == Init /\ [][NextPyth]_vars

(* Specification of the rate limiter with its scheduling: the semaphore    *)
(* serves its waiters in order, every sleep ends, every request is         *)
(* answered or fails, and the clock moves on to the next instant a caller  *)
(* waits for.                                                              *)

\* the instants callers wait for: the ends of the sleeps
WaitedInstants ==
    { switchboard.task[t].wake_at : t \in {u \in Tasks : switchboard.task[u].pc = "sleep"} }

\* a request is answered with an account or fails
LiveUpstream == {"network", "account"}

TimePasses ==
    /\ \E d \in WaitedInstants : d > now
    /\ now' = CHOOSE d \in WaitedInstants :
                 d > now /\ \A e \in WaitedInstants : e > now => d <= e
    /\ UNCHANGED <<calls, advances, engine, monitor, subscribers, probe, switchboard>>

NextLive ==
    \/ \E t \in Tasks : SwitchboardCall(t, MaxLiveCalls)
    \/ \E t \in Tasks : AcquirePermit(t)
    \/ \E t \in Tasks : WakeAndSend(t)
    \/ \E t \in Tasks : SwitchboardRespond(t, LiveUpstream, {0})
    \/ TimePasses

SpecLive ==
    /\ Init /\ [][NextLive]_vars
    /\ WF_vars(TimePasses)
    /\ \A t \in Tasks : /\ SF_vars(AcquirePermit(t))
                        /\ WF_vars(WakeAndSend(t))
                        /\ WF_vars(SwitchboardRespond(t, LiveUpstream, {0}))

-----------------------------------------------------------------------------
(* Specification of the detector under concurrent callers: analyze_price   *)
(* takes the write lock of price_history, pushes its point into the entry  *)
(* of its symbol, trims the entry, scores it and drops the lock.  The      *)
(* histories start empty or with nine points at 100.0.                     *)

\* variant: one entry for all symbols
HistoryKey_Shared(symbol) == "BTC/USD"

\* history.entry(symbol.to_string())
HistoryKey(symbol) == symbol

\* variant: the lock is granted while another caller holds it
WriteLockFree_Always(holder) == TRUE

\* self.price_history.write().await returns when nobody holds the lock
WriteLockFree(holder) == holder = "none"

\* retain and drain, on a history into which the point was pushed
RetainAndTruncate(pushed, timestamp) ==
    LET retained == SelectSeq(pushed, LAMBDA e : e[2] >= timestamp - VolatilityWindowS)
    IN IF Len(retained) > MaxHistorySize
       THEN SubSeq(retained, Len(retained) - MaxHistorySize + 1, Len(retained))
       ELSE retained

\* a caller of analyze_price: its arguments, the score it got (-1: none
\* yet), the history the score was computed on, and the score of the same
\* call on a detector that only ever saw the calls of its symbol, in the
\* order in which the lock was granted
IdleAnalysis == [pc |-> "idle", symbol |-> "none", price |-> 0, timestamp |-> 0,
                 score |-> -1, scored_on |-> << >>, alone |-> -1]

InitLock ==
    /\ now = 0
    /\ price_cache = [s \in Symbols |-> NoEntry]
    /\ price_feeds = << >>
    /\ channel = << >>
    /\ pc = [c \in Callers |-> "idle"]
    /\ sym = [c \in Callers |-> "none"]
    /\ aggregated = [c \in Callers |-> NoPrice]
    /\ score = [c \in Callers |-> 0]
    /\ result = [c \in Callers |-> NoResult]
    /\ trace = [c \in Callers |-> NoTrace]
    /\ cache_gen = [s \in Symbols |-> 0]
    /\ calls = 0
    /\ advances = 0
    /\ monitor = NotMonitoring
    /\ subscribers = [k \in Subscribers |-> NoReceiver]
    /\ switchboard = NewSwitchboard
    /\ \E h \in [Symbols -> {SpikedHistory(0, 0), SpikedHistory(9, 0)}] :
         /\ price_history = h
         /\ probe = [op |-> "detector", holder |-> "none", serial |-> h,
                     task |-> [c \in Callers |-> IdleAnalysis]]

\* analyze_price(symbol, price, timestamp) is called and waits for the lock
AnalyzeCall(c) ==
    /\ probe.task[c].pc = "idle"
    /\ calls < MaxLockCalls
    /\ calls' = calls + 1
    /\ \E s \in Symbols, price \in {1000, 1300},
          timestamp \in {ProbeTime, ProbeTime + 301} :
         probe' = [probe EXCEPT !.task[c] =
                      [IdleAnalysis EXCEPT !.pc = "lock", !.symbol = s,
                                           !.price = price, !.timestamp = timestamp]]
    /\ UNCHANGED <<now, advances, engine, monitor, subscribers, switchboard>>

\* the write lock is granted and the point is pushed
LockAndPush(c) ==
    /\ probe.task[c].pc = "lock"
    /\ WriteLockFree(probe.holder)
    /\ LET call == probe.task[c]
           key == HistoryKey(call.symbol)
           alone == PushAndTrim(probe.serial[call.symbol], call.price, call.timestamp)
       IN /\ price_history' = [price_history EXCEPT
                                  ![key] = Append(@, <<call.price, call.timestamp>>)]
          /\ probe' = [probe EXCEPT
                          !.holder = c,
                          !.serial[call.symbol] = alone,
                          !.task[c].pc = "pushed",
                          !.task[c].alone = calculate_manipulation_score(alone, call.price)]
    /\ UNCHANGED <<now, price_cache, price_feeds, channel, pc, sym, aggregated,
                   score, result, trace, cache_gen, calls, advances, monitor,
                   subscribers, switchboard>>

\* the entry is trimmed and scored, the guard is dropped and the score
\* returned
TrimScoreUnlock(c) ==
    /\ probe.task[c].pc = "pushed"
    /\ LET call == probe.task[c]
           key == HistoryKey(call.symbol)
           prices == RetainAndTruncate(price_history[key], call.timestamp)
       IN /\ price_history' = [price_history EXCEPT ![key] = prices]
          /\ probe' = [probe EXCEPT
                          !.holder = IF @ = c THEN "none" ELSE @,
                          !.task[c].pc = "idle",
                          !.task[c].scored_on = prices,
                          !.task[c].score = calculate_manipulation_score(prices, call.price)]
    /\ UNCHANGED <<now, price_cache, price_feeds, channel, pc, sym, aggregated,
                   score, result, trace, cache_gen, calls, advances, monitor,
                   subscribers, switchboard>>

NextLock ==
    \/ \E c \in Callers : AnalyzeCall(c)
    \/ \E c \in Callers : LockAndPush(c)
    \/ \E c \in Callers : TrimScoreUnlock(c)

SpecLock == InitLock /\ [][NextLock]_vars

-----------------------------------------------------------------------------
(* Properties *)

\* caller c has a finished call; result[c], trace[c], aggregated[c] and
\* score[c] describe it
Finished(c) == pc[c] = "idle" /\ result[c].kind # "none"

Rejected(c) == Finished(c) /\ result[c].kind = "err"
Succeeded(c) == Finished(c) /\ result[c].kind = "ok"

ValidationErrors ==
    {"NoSourcesToValidate", "UnreasonablePrice", "LowSingleSourceConfidence",
     "DeviationTooHigh", "Stale"}
HistoryStoreErrors == {"StoreFailed", "HistoryUnavailable", "NoHistoricalData"}
AdapterErrors == {"NoSources", "NoPriceData", "AllStale"}

\* C1: a PriceUpdate is sent only by a call that returns success: a call
\* that is still running or that returned an error has sent no event, and a
\* successful call has sent exactly the event of the price it returned.
C1_NoEventOnError ==
    \A c \in Callers :
        /\ (pc[c] # "idle" \/ Rejected(c)) => trace[c].sent = << >>
        /\ Succeeded(c) => trace[c].sent = <<UpdateEvent(result[c].price, score[c])>>

C1_Witness ==
    \E c \in Callers :
        /\ Rejected(c)
        /\ result[c].err = "DeviationTooHigh"
        /\ trace[c].analyzed = 1
        /\ channel # << >>

\* C2 (as claimed): a call that returns an error has written no row to the
\* history store.
C2_NoRowOnError ==
    \A c \in Callers : Rejected(c) => trace[c].rows = 0

\* C3 (as claimed): for each symbol the events on the broadcast channel
\* have non-decreasing timestamps, in send order.
C3_MonotoneTimestamps ==
    \A i, j \in 1..Len(channel) :
        (i < j /\ channel[i].symbol = channel[j].symbol)
            => channel[i].timestamp <= channel[j].timestamp

\* C4 (as claimed): two successful calls served from the same cache entry
\* return equal AggregatedPrice values.
C4_CacheCoherence ==
    \A c, d \in Callers :
        (/\ Succeeded(c) /\ Succeeded(d)
         /\ sym[c] = sym[d]
         /\ trace[c].hit /\ trace[d].hit
         /\ trace[c].gen = trace[d].gen)
            => result[c].price = result[d].price

\* some retained source price is more than 5% away from the unweighted mean
\* of the retained source prices
MeanOf(prices) == SumSeq(prices) \div Len(prices)
ExceedsMeanBy5Percent(prices) ==
    \E i \in 1..Len(prices) :
        20 * Abs(Len(prices) * prices[i] - SumSeq(prices)) > SumSeq(prices)

\* C5: with two or more retained sources, validation fails with
\* DeviationTooHigh exactly when some source price is more than 5% away from
\* the unweighted mean of the source prices; the single-source confidence
\* check is not applied.
C5_DeviationIffFarFromMean ==
    \A c \in Callers :
        (Finished(c) /\ trace[c].analyzed = 1 /\ Len(aggregated[c].sources) >= 2)
            => /\ (Rejected(c) /\ result[c].err = "DeviationTooHigh")
                    <=> ExceedsMeanBy5Percent(SourcePrices(aggregated[c]))
               /\ ~(Rejected(c) /\ result[c].err = "LowSingleSourceConfidence")

C5_Witness ==
    \E c \in Callers :
        /\ Finished(c) /\ trace[c].analyzed = 1
        /\ Len(aggregated[c].sources) = 2
        /\ aggregated[c].mark_price # MeanOf(SourcePrices(aggregated[c]))
        /\ Succeeded(c)

\* the call validated exactly two sources whose prices are lo and hi
TwoSources(c, lo, hi) ==
    /\ Finished(c) /\ trace[c].analyzed = 1
    /\ SourcePrices(aggregated[c]) \in {<<lo, hi>>, <<hi, lo>>}

C7_ConservativeBlend ==
    \A c \in Callers :
        Succeeded(c) =>
            LET reconciled == aggregated[c]
                returned == result[c].price
                m == trace[c].havg
            IN /\ trace[c].sent = <<UpdateEvent(returned, score[c])>>
               /\ IF score[c] <= ManipulationThreshold
                  THEN returned = reconciled
                  ELSE /\ m >= 0
                       /\ returned.mark_price = (8 * reconciled.mark_price + 2 * m) \div 10
                       /\ returned.confidence = (3 * reconciled.confidence) \div 2
                       /\ returned.sources = reconciled.sources
                       /\ returned.timestamp = reconciled.timestamp

C7_Witness ==
    \E c \in Callers :
        /\ Succeeded(c)
        /\ score[c] > ManipulationThreshold
        /\ result[c].price.mark_price < aggregated[c].mark_price
        /\ result[c].price.confidence > aggregated[c].confidence

\* C8 (as claimed): a validated price whose score exceeds 0.70 while the
\* historical mean is unavailable is still returned, unblended.
C8_ScoreNeverRejects ==
    \A c \in Callers :
        (Finished(c) /\ trace[c].validated
         /\ score[c] > ManipulationThreshold /\ trace[c].havg = -1)
            => Succeeded(c) /\ result[c].price = aggregated[c]

\* the quotes the adapters returned to the call that were fresh at the poll
FreshQuotes(c) ==
    SelectSeq(trace[c].fetched,
              LAMBDA q : q.ok /\ trace[c].polled_at - q.timestamp <= StalenessMaxS)

\* the reconciled price of the call passes validate_price_sources and the
\* call was not rejected as stale
PassesValidation(c) ==
    /\ aggregated[c] # NoPrice
    /\ validate_price_sources(aggregated[c]).ok
    /\ ~(Rejected(c) /\ result[c].err = "Stale")

AllAdaptersFailed(c) ==
    /\ Finished(c) /\ trace[c].polled
    /\ \A i \in 1..Len(trace[c].fetched) : ~trace[c].fetched[i].ok

\* C10: when every adapter fails the call returns the no-sources error and
\* the step that returns it leaves the history rows, the cache, the
\* manipulation history and the channel unchanged; a next call for the
\* symbol, made before anyone has written the cache, polls again.
C10_AllFailedStep ==
    \A c \in Callers :
        /\ AllAdaptersFailed(c)' =>
              /\ result'[c].kind = "err" /\ result'[c].err = "NoSources"
              /\ trace'[c].rows = 0 /\ trace'[c].cached = 0
              /\ trace'[c].analyzed = 0 /\ trace'[c].sent = << >>
        /\ (pc[c] = "fetch" /\ AllAdaptersFailed(c)') =>
              UNCHANGED <<price_feeds, price_cache, price_history, channel>>
        /\ (AllAdaptersFailed(c) /\ pc'[c] # "idle" /\ sym'[c] = sym[c]
            /\ cache_gen[sym[c]] = trace[c].gen) => pc'[c] = "fetch"

C10_AllAdaptersFail == [][C10_AllFailedStep]_vars

C10_Witness ==
    \E c \in Callers :
        /\ pc[c] = "fetch"
        /\ result[c].kind = "err" /\ result[c].err = "NoSources"
        /\ result[c].symbol = sym[c]
        /\ trace[c].gen = cache_gen[sym[c]]

-----------------------------------------------------------------------------
(* Properties of the reconciler and of the single-source rule *)

Reconciled == probe.op = "reconcile" /\ probe.stage # "input" /\ probe.out.ok

RECURSIVE MinSeq(_)
MinSeq(s) == IF Len(s) = 1 THEN s[1]
             ELSE LET m == MinSeq(Tail(s)) IN IF s[1] < m THEN s[1] ELSE m

\* C12 (as claimed): the reconciled mark price lies between the minimum and
\* the maximum of the retained source prices.
C12_MarkWithinSources ==
    Reconciled =>
        LET prices == SourcePrices(probe.out.value)
        IN /\ MinSeq(prices) <= probe.out.value.mark_price
           /\ probe.out.value.mark_price <= MaxSeq(prices)

\* the quotes of a list published at most 30 s before ProbeTime
PublishedWithin30s(qs) ==
    SelectSeq(qs, LAMBDA q : q.timestamp >= ProbeTime - 30)

\* C13: a list with at least one fresh quote reconciles to the same mark,
\* index, confidence and retained sources when a quote published more than
\* 30 s ago is inserted into it; the retained sources are the quotes
\* published at most 30 s ago.
C13_OldQuoteIgnored ==
    (probe.op = "reconcile" /\ probe.stage # "input"
     /\ PublishedWithin30s(probe.prices) # << >>)
        => /\ probe.out.ok /\ probe.out_with_old.ok
           /\ probe.out_with_old = probe.out
           /\ probe.out_with_old.value.sources = PublishedWithin30s(probe.prices)

C13_Witness ==
    /\ Reconciled
    /\ Len(probe.prices) = 2
    /\ Len(probe.out.value.sources) = 1
    /\ probe.with_old[2].timestamp = ProbeTime - 31
    /\ probe.out_with_old = probe.out

C15_SingleSourcePreserved ==
    (Reconciled /\ Len(probe.prices) = 1
     /\ probe.prices[1].confidence * 20 <= probe.prices[1].price)
        => /\ probe.out.value.mark_price = probe.prices[1].price
           /\ probe.out.value.index_price = probe.prices[1].price
           /\ probe.out.value.confidence = probe.prices[1].confidence

-----------------------------------------------------------------------------
(* Properties of the detector *)

Analyzed == probe.op = "analyze" /\ probe.analyses > 0

InUnitRange(x) == 0 <= x /\ x <= ScoreUnit

\* C16: the score returned by analyze_price is in [0, 1], and so is each of
\* the four sub-scores on the history it was computed from.
C16_ScoreInUnitRange ==
    Analyzed =>
        /\ InUnitRange(probe.score)
        /\ InUnitRange(calculate_velocity_score(probe.history))
        /\ InUnitRange(calculate_volatility_score(probe.history))
        /\ InUnitRange(detect_pump_dump_pattern(probe.history))
        /\ InUnitRange(calculate_outlier_score(probe.history, probe.price))

C16_Witness ==
    /\ Analyzed
    /\ Len(probe.history) >= MinPatternPoints
    /\ detect_pump_dump_pattern(probe.history) > 0
    /\ calculate_outlier_score(probe.history, probe.price) = ScoreUnit
    /\ probe.score > ManipulationThreshold

-----------------------------------------------------------------------------
(* Properties of concurrent callers: order and freshness *)

\* the call of c inserted a row and sent an event for its symbol
StoredAndSent(c) == trace[c].row_at > 0 /\ trace[c].sent_at > 0

\* C18 (as claimed): for each symbol, rows are inserted into the history
\* store in the order in which the events of the same calls are broadcast.
C18_RowOrderIsBroadcastOrder ==
    \A c, d \in Callers :
        (StoredAndSent(c) /\ StoredAndSent(d) /\ sym[c] = sym[d])
            => (trace[c].row_at < trace[d].row_at
                    <=> trace[c].sent_at < trace[d].sent_at)

\* C19 (as claimed): every source of a returned AggregatedPrice is at most
\* STALENESS_MAX + TTL = 30.5 s old when the call returns.
C19_EndToEndFreshness ==
    \A c \in Callers :
        Succeeded(c) =>
            \A i \in 1..Len(result[c].price.sources) :
                trace[c].returned_at - 1000 * result[c].price.sources[i].timestamp
                    <= 1000 * StalenessMaxS + CacheDurationMs

-----------------------------------------------------------------------------
(* Properties of the monitoring loop *)

Attempting(i) ==
    /\ monitor.phase = "match" /\ monitor.index = i
    /\ sym["monitor"] = MonitoredSymbols[i]

FailedAt(i) ==
    /\ monitor.phase = "sleep" /\ monitor.index = i
    /\ result["monitor"].kind = "err"

\* the loop moves from a symbol to the next one of the list, and from the
\* last one to the first one
ListOrderStep ==
    monitor'.index # monitor.index =>
        monitor'.index = (monitor.index % Len(MonitoredSymbols)) + 1

\* C11: a failed call does not stop the loop: the symbols are attempted in
\* list order, after a failure for one symbol the next symbol of the tick is
\* attempted, and every monitored symbol is attempted infinitely often.
C11_MonitorNeverStops ==
    /\ [][ListOrderStep]_vars
    /\ \A i \in 1..Len(MonitoredSymbols) : []<>Attempting(i)
    /\ \A i \in 1..(Len(MonitoredSymbols) - 1) : FailedAt(i) ~> Attempting(i + 1)

C11_Witness ==
    /\ Attempting(2)
    /\ pc["monitor"] # "idle"
    /\ result["monitor"].kind = "err"
    /\ result["monitor"].symbol = MonitoredSymbols[1]
    /\ calls >= MaxMonitorAnswers

-----------------------------------------------------------------------------
(* Properties of the broadcast channel *)

\* C20: a call whose price was validated returns that price whether or not
\* anyone is subscribed, having handed exactly one event to the channel; a
\* receiver that is not told it lagged has received every event since its
\* subscription, in order; a receiver that is told so had fallen more than
\* the capacity behind, and lost the oldest of its unread events.
C20_PublishNeverFails ==
    /\ \A c \in Callers :
          (Finished(c) /\ trace[c].validated /\ score[c] <= ManipulationThreshold)
              => /\ Succeeded(c)
                 /\ result[c].price = aggregated[c]
                 /\ Len(trace[c].sent) = 1
                 /\ channel[trace[c].sent_at] = trace[c].sent[1]
    /\ \A k \in Subscribers :
          /\ subscribers[k].received
                = SubSeq(channel, subscribers[k].start + 1, subscribers[k].next)
          /\ subscribers[k].lost > 0
                => /\ ~subscribers[k].open
                   /\ subscribers[k].lost <= Len(channel) - subscribers[k].next - ChannelCapacity
          /\ (subscribers[k].open /\ Unread(k) <= ChannelCapacity)
                => subscribers[k].lost = 0

\* the first event was published before anyone subscribed; later one
\* receiver fell behind and another one received everything
C20_Witness ==
    /\ \E c \in Callers : Succeeded(c) /\ trace[c].receivers > 0
    /\ \A k \in Subscribers : subscribers[k].start > 0
    /\ \E k, j \in Subscribers :
          /\ subscribers[k].lost > 0
          /\ subscribers[j].open
          /\ Len(subscribers[j].received) > ChannelCapacity
          /\ subscribers[j].next = Len(channel)

-----------------------------------------------------------------------------
(* Adapters *)

PythFailures == {"timeout", "network", "malformed"}
SwitchboardFailures == {"timeout", "network", "malformed", "rpc_error"}

Returned(t) == switchboard.task[t].pc = "idle" /\ switchboard.task[t].upstream # "none"

\* C21: get_price of an adapter returns an error, never a quote, when its
\* upstream request timed out, met a network error or was answered with a
\* malformed body or (JSON-RPC adapter) with a body carrying an error field;
\* for the HTTPS adapter and for the JSON-RPC adapter.
C21_UpstreamFailureIsError ==
    /\ (probe.op = "pyth" /\ probe.upstream.kind \in PythFailures) => ~probe.out.ok
    /\ \A t \in Tasks :
         (Returned(t) /\ switchboard.task[t].upstream \in SwitchboardFailures)
            => ~switchboard.task[t].result.ok

\* C28: at most 2 requests of one SwitchboardClient are in flight at any
\* time, whatever the number of concurrent callers of get_price.
C28_AtMostTwoInFlight == Cardinality(InFlight) <= 2

\* two requests are in flight while a third caller waits for a permit
C28_Witness ==
    /\ Cardinality(InFlight) = 2
    /\ \E t \in Tasks : switchboard.task[t].pc = "acquire"

\* C29: any two requests of one SwitchboardClient are sent at least 500 ms
\* apart, for any number of concurrent callers and any interleaving.
C29_RequestsHalfSecondApart ==
    \A i, j \in 1..Len(switchboard.requests) :
        i < j => switchboard.requests[j] - switchboard.requests[i] >= 500

-----------------------------------------------------------------------------
(* Cache and reconciler inside get_price_with_validation *)

\* C22 (as claimed): a call that finds a cache entry younger than the TTL
\* only returns it: it polls no adapter, appends nothing to the symbol's
\* manipulation history, inserts no history row and sends no PriceUpdate.
C22_CacheHitOnlyReturns ==
    \A c \in Callers :
        (Finished(c) /\ trace[c].hit)
            => /\ ~trace[c].polled
               /\ trace[c].rows = 0
               /\ trace[c].analyzed = 0
               /\ trace[c].sent = << >>

\* C23 (as claimed): the cache is written only after validation accepted
\* the price: a call whose aggregation validation rejects has written no
\* cache entry, and no entry of the cache fails the source validation.
C23_CachedOnlyIfAccepted ==
    /\ \A c \in Callers :
         (Rejected(c) /\ result[c].err \in ValidationErrors) => trace[c].cached = 0
    /\ \A s \in Symbols :
         price_cache[s].present => validate_price_sources(price_cache[s].price).ok

\* C30: every AggregatedPrice the reconciler produced has at least one
\* source and each of its sources was at most 30 s old at aggregation time;
\* a call whose quotes are all stale fails with AllStale and has inserted no
\* row, written no cache entry and sent no event.
C30_FreshSourcesOrAllStale ==
    \A c \in Callers :
        /\ aggregated[c] # NoPrice
             => /\ Len(aggregated[c].sources) >= 1
                /\ \A i \in 1..Len(aggregated[c].sources) :
                     aggregated[c].timestamp - aggregated[c].sources[i].timestamp <= 30
        /\ (/\ trace[c].polled /\ pc[c] = "idle"
            /\ \E j \in 1..Len(trace[c].fetched) : trace[c].fetched[j].ok
            /\ \A i \in 1..Len(trace[c].fetched) :
                 trace[c].fetched[i].ok
                    => trace[c].polled_at - trace[c].fetched[i].timestamp > 30)
             => /\ Rejected(c) /\ result[c].err = "AllStale"
                /\ trace[c].rows = 0 /\ trace[c].cached = 0 /\ trace[c].sent = << >>

\* one call failed with AllStale, another aggregated a quote that was
\* exactly 30 s old
C30_Witness ==
    \E c, d \in Callers :
        /\ Rejected(c) /\ result[c].err = "AllStale"
        /\ trace[c].polled /\ \E i \in 1..Len(trace[c].fetched) : trace[c].fetched[i].ok
        /\ aggregated[d] # NoPrice
        /\ \E i \in 1..Len(aggregated[d].sources) :
             aggregated[d].timestamp - aggregated[d].sources[i].timestamp = 30

-----------------------------------------------------------------------------
(* Manipulation history *)

\* the history before the last analyze_price with the new entry pushed and
\* the entries older than the window removed
WindowOfLast ==
    SelectSeq(Append(probe.before, <<probe.price, probe.timestamp>>),
              LAMBDA e : e[2] >= probe.timestamp - 300)

\* C24: after analyze_price a symbol's history holds at most MAX_HISTORY
\* entries, the entry just inserted is its last one, and what an overflow
\* dropped are the entries inserted earliest: the history is the newest end
\* of what the window kept.
C24_BoundedOldestDropped ==
    (probe.op = "analyze" /\ probe.analyses > 0)
        => /\ Len(probe.history) <= MaxHistorySize
           /\ probe.history[Len(probe.history)] = <<probe.price, probe.timestamp>>
           /\ probe.history = SubSeq(WindowOfLast,
                                     Len(WindowOfLast) - Len(probe.history) + 1,
                                     Len(WindowOfLast))
           /\ Len(WindowOfLast) > MaxHistorySize => Len(probe.history) = MaxHistorySize

\* an insert into a full history dropped the spike at its front
C24_Witness ==
    /\ probe.op = "analyze" /\ probe.analyses > 0
    /\ Len(probe.before) = MaxHistorySize
    /\ Len(WindowOfLast) = MaxHistorySize + 1
    /\ probe.before[1][1] = 1300
    /\ probe.history[1][1] = 1000

\* C25 (as claimed): whatever the order of the timestamps given to
\* analyze_price by polls and by report replays, no two entries of a
\* symbol's history are more than 300 s apart.
C25_HistoryWithinWindow ==
    \A s \in Symbols :
        \A i, j \in 1..Len(price_history[s]) :
            price_history[s][i][2] - price_history[s][j][2] <= 300

\* C26 (as claimed): get_manipulation_report leaves the detector's history
\* of every symbol as it was.
C26_ReportReadOnly ==
    probe.op = "report" => probe.after = probe.before

\* C27 (as claimed): when the replay query fails, get_manipulation_report
\* returns an empty report (no data point, no event), not an error.
C27_EmptyReportWhenStoreDown ==
    (probe.op = "report" /\ ~probe.db_ok)
        => /\ probe.out.ok
           /\ probe.out.value.data_points = 0
           /\ probe.out.value.manipulation_events = << >>

-----------------------------------------------------------------------------
(* Detector sub-scores and the freshness filter *)

\* the number of length-10 windows of a history whose maximum is more than
\* 1.10 times the first element and more than 1.08 times the last
PumpDumpWindows(prices) ==
    LET values == HistoryPrices(prices)
    IN Cardinality({k \in 1..(Len(values) - 9) :
                       PumpDumpWindow(SubSeq(values, k, k + 9))})

\* C32 (as claimed): on a history of at least 10 points the pump-dump
\* sub-score is min(1.0, 0.10 * k), k being the number of such windows; a
\* history of 10 to 19 points with such a window has a positive sub-score.
C32_PumpDumpFromTenPoints ==
    (Analyzed /\ Len(probe.history) >= 10)
        => detect_pump_dump_pattern(probe.history)
             = Min(PumpDumpWindows(probe.history) * (ScoreUnit \div 10), ScoreUnit)

\* C33 (as claimed): the reconciler retains a quote only when
\* 0 <= now - timestamp <= 30; a quote dated in the future is left out of
\* the aggregation.
C33_FutureQuoteExcluded ==
    Reconciled =>
        \A i \in 1..Len(probe.out.value.sources) :
            /\ 0 <= ProbeTime - probe.out.value.sources[i].timestamp
            /\ ProbeTime - probe.out.value.sources[i].timestamp <= 30

\* C34 (as claimed): on a symbol with at most two earlier observations, all
\* normal, analyze_price scores a further normal observation below 0.3 and
\* an observation that jumps by 15% or more above 0.7.
C34_SpikeFlaggedAtOnce ==
    (/\ Analyzed
     /\ Len(probe.before) \in 1..2
     /\ \A i \in 1..Len(probe.before) : probe.before[i] = <<1000, ProbeTime>>
     /\ probe.timestamp = ProbeTime)
        => /\ probe.price = 1000 => probe.score * 10 < 3 * ScoreUnit
           /\ probe.price * 100 >= 115 * 1000 => probe.score > ManipulationThreshold

-----------------------------------------------------------------------------
(* The history-store insert inside get_price_with_validation *)

HasRow(price) ==
    \E i \in 1..Len(price_feeds) :
        price_feeds[i] = PriceFeedRow(price, price_feeds[i].created_at)

\* C36: the aggregation held in the cache for a symbol, and the aggregation
\* of every call that has written the cache or sent a PriceUpdate, has a
\* row in the history store.
C36_PersistBeforeVisible ==
    /\ \A s \in Symbols : price_cache[s].present => HasRow(price_cache[s].price)
    /\ \A c \in Callers :
         (trace[c].cached > 0 \/ trace[c].sent # << >>) => HasRow(aggregated[c])

\* a call inserted its row, wrote the cache and sent its event
C36_Witness ==
    \E c \in Callers :
        /\ Succeeded(c) /\ ~trace[c].hit
        /\ trace[c].rows = 1 /\ trace[c].cached = 1 /\ trace[c].sent # << >>
        /\ price_cache[sym[c]].present

\* C37: the step of a call in which the history-store insert writes no row
\* ends the call with the insert's error and leaves the cache, every
\* manipulation history and the broadcast channel as they were.
C37_FailedInsertStep ==
    \A c \in Callers :
        (pc[c] = "store" /\ pc'[c] # "store" /\ price_feeds' = price_feeds)
            => /\ pc'[c] = "idle"
               /\ result'[c].kind = "err" /\ result'[c].err = "StoreFailed"
               /\ UNCHANGED <<price_cache, price_history, channel>>

C37_FailedInsertKeepsState == [][C37_FailedInsertStep]_vars

\* a call failed at the insert while the cache held the entry of an earlier
\* call
C37_Witness ==
    \E c \in Callers :
        /\ Rejected(c) /\ result[c].err = "StoreFailed"
        /\ trace[c].cached = 0 /\ trace[c].analyzed = 0 /\ trace[c].sent = << >>
        /\ price_cache[sym[c]].present

-----------------------------------------------------------------------------
(* Concurrent callers of analyze_price *)

Scored(c) == probe.op = "detector" /\ probe.task[c].pc = "idle" /\ probe.task[c].score >= 0

\* the history of symbol s changes only in a step of a call for s
OwnHistoryStep ==
    \A s \in Symbols :
        price_history'[s] # price_history[s]
            => \E c \in Callers : /\ probe.task[c].pc \in {"lock", "pushed"}
                                  /\ probe'.task[c].pc # probe.task[c].pc
                                  /\ probe.task[c].symbol = s

\* C35: analyze_price(s, ..) changes the history of s only, and the score
\* it returns is the one a detector that saw only the calls for s returns.
C35_PerSymbolIndependence ==
    /\ [][OwnHistoryStep]_vars
    /\ [](\A c \in Callers : Scored(c) => probe.task[c].score = probe.task[c].alone)

\* a call for one symbol was scored above zero after a call for the other
\* symbol had changed that one's history
C35_Witness ==
    \E c, d \in Callers :
        /\ Scored(c) /\ probe.task[c].score > 0
        /\ Scored(d) /\ probe.task[d].symbol # probe.task[c].symbol
        /\ price_history[probe.task[d].symbol] # << >>
        /\ Len(price_history[probe.task[d].symbol]) # 9

\* C38: concurrent calls of analyze_price act one after the other: when no
\* call holds the lock the histories are those of the calls made in the
\* order in which the lock was granted, and every score is computed on a
\* history whose last point is the call's own.
C38_AnalyzeAtomic ==
    /\ (probe.op = "detector" /\ probe.holder = "none"
        /\ \A c \in Callers : probe.task[c].pc # "pushed")
          => price_history = probe.serial
    /\ \A c \in Callers :
         Scored(c) =>
            /\ probe.task[c].scored_on # << >>
            /\ probe.task[c].scored_on[Len(probe.task[c].scored_on)]
                 = <<probe.task[c].price, probe.task[c].timestamp>>
            /\ probe.task[c].score
                 = calculate_manipulation_score(probe.task[c].scored_on, probe.task[c].price)

\* a call was scored while the other caller waited for the lock
C38_Witness ==
    \E c, d \in Callers :
        /\ Scored(c) /\ probe.task[c].score > 0
        /\ probe.task[d].pc = "lock"
        /\ probe.task[d].symbol = probe.task[c].symbol

-----------------------------------------------------------------------------
(* Rate limiter: progress *)

PermitHolders == {t \in Tasks : switchboard.task[t].pc \in {"sleep", "in_flight"}}

\* C39: every call of get_price on the JSON-RPC adapter gets a permit and
\* returns, and a permit is held only by a call that is between acquire and
\* return: every exit, the error exits included, gives it back.
C39_LimiterNoStarvation ==
    /\ \A t \in Tasks :
         (switchboard.task[t].pc = "acquire") ~> (switchboard.task[t].pc = "idle")
    /\ [](switchboard.permits + Cardinality(PermitHolders) = 2)

\* a call returned after its request failed while another call was waiting
\* for a permit, and both permits are back
C39_Witness ==
    /\ \E t \in Tasks : Returned(t) /\ SendFailed(switchboard.task[t].upstream)
    /\ \A t \in Tasks : switchboard.task[t].pc = "idle"
    /\ calls = MaxLiveCalls
    /\ switchboard.permits = 2

-----------------------------------------------------------------------------
(* HTTPS adapter: the batch request *)

BatchReturned == probe.op = "batch" /\ probe.out.ok

\* C31: every quote the HTTPS adapter returns, from get_price and from
\* get_multiple_prices, has a normalized price p with 0 < p <= 1,000,000.
C31_QuotePriceInRange ==
    /\ (probe.op = "pyth" /\ probe.out.ok) =>
          (probe.out.value.price > 0 /\ probe.out.value.price <= MaxReasonablePrice)
    /\ BatchReturned =>
          \A i \in 1..Len(probe.out.value) :
             /\ probe.out.value[i].quote.price > 0
             /\ probe.out.value[i].quote.price <= MaxReasonablePrice

\* C40: every quote of get_multiple_prices carries the symbol whose feed id
\* produced the entry it was read from, and no quote carries a symbol that
\* has no feed id.
C40_BatchLabelsMatchFeeds ==
    BatchReturned =>
       \A i \in 1..Len(probe.out.value) :
          /\ probe.out.value[i].quote.symbol \in DOMAIN PriceFeedIds
          /\ PriceFeedIds[probe.out.value[i].quote.symbol] = probe.out.value[i].from

====
